---- MODULE Spec2Model ----
(***************************************************************************)
(* Model of the pull-request bot's reconciliation loop (src/main.py).      *)
(* main() polls the ArgoCD applications, keeps those with owner            *)
(* references, and for each one whose head_sha is not yet in               *)
(* commits_processed renders a comment and posts it to the pull request.   *)
(*                                                                         *)
(* Python values are modelled as follows: a dict is a function whose       *)
(* DOMAIN is its key set (a missing key is a missing domain element), a    *)
(* list is a sequence, and a variable that can hold values of several      *)
(* Python types holds a record tagged by the field py.  An exception that  *)
(* leaves main() is the state pc = "crashed" with its type in exc.         *)
(***************************************************************************)
EXTENDS Integers, Sequences, FiniteSets, TLC

\* Largest number of applications one listing returns.
MaxApps == 2
\* Number of polling cycles explored.
MaxCycles == 3
\* Largest number of application sets, and of generators of one application set,
\* when git_provider_info is explored on its own.
MaxAppSets == 2
MaxGenerators == 2

(***************************************************************************)
(* Python values                                                           *)
(***************************************************************************)
EmptyDict == [k \in {} |-> ""]
PyStr(s) == [py |-> "str", s |-> s]
PyNone == [py |-> "None"]
PyDict(d) == [py |-> "dict", d |-> d]
PyList(l) == [py |-> "list", l |-> l]
PyRaise(e) == [py |-> "raise", exc |-> e]
Unbound == [py |-> "unbound"]

\* dict.get(key, default)
Get(d, key, default) == IF key \in DOMAIN d THEN d[key] ELSE default

\* x in list
InList(x, l) == \E k \in 1..Len(l) : l[k] = x

(***************************************************************************)
(* The cluster objects the listings are drawn from                         *)
(***************************************************************************)
Sha1 == "abc123"
Sha2 == "def456"
Url1 == "https://pr-1.preview.example"
Url2 == "https://pr-2.preview.example"

RefAppSet(n) == [kind |-> "ApplicationSet", name |-> n]
RefOther == [kind |-> "Rollout", name |-> "rollout"]

Annotations(sha, number) == [head_sha |-> sha, pull_request_number |-> number]
Destination == [destination |-> [namespace |-> "preview"]]
Status(urls) == [summary |-> [externalURLs |-> urls]]
StatusNoUrls == [summary |-> EmptyDict]

\* An application with ownerReferences and annotations.
App(name, refs, ann, status) ==
    [metadata |-> [name |-> name, ownerReferences |-> refs, annotations |-> ann],
     spec |-> Destination, status |-> status]

AppReady1 == App("app-pr-1", <<RefAppSet("appset-a")>>, Annotations(Sha1, "1"), Status(<<Url1>>))
AppReady2 == App("app-pr-2", <<RefAppSet("appset-b")>>, Annotations(Sha2, "2"), Status(<<Url2>>))
\* hand-created: no ownerReferences key, every other field present
AppUnownedReady ==
    [metadata |-> [name |-> "manual", annotations |-> Annotations(Sha2, "2")],
     spec |-> Destination, status |-> Status(<<Url2>>)]
\* hand-created: empty ownerReferences, nothing else
AppUnownedBare ==
    [metadata |-> [name |-> "bare", ownerReferences |-> <<>>],
     spec |-> Destination, status |-> StatusNoUrls]
\* owned by a controller that is no ApplicationSet
AppOtherOwned == App("rollout-app", <<RefOther>>, Annotations(Sha2, "2"), Status(<<Url2>>))
\* the ApplicationSet is the second owner reference
AppMixedOwned ==
    App("mixed-app", <<RefOther, RefAppSet("appset-b")>>, Annotations(Sha2, "2"), Status(<<Url2>>))
\* annotations without head_sha
AppNoSha == App("no-sha", <<RefAppSet("appset-a")>>, [pull_request_number |-> "1"], Status(<<Url1>>))
\* no annotations key at all
AppNoAnnotations ==
    [metadata |-> [name |-> "no-ann", ownerReferences |-> <<RefAppSet("appset-a")>>],
     spec |-> Destination, status |-> Status(<<Url1>>)]
\* annotations without pull_request_number
AppNoNumber == App("no-number", <<RefAppSet("appset-a")>>, [head_sha |-> Sha1], Status(<<Url1>>))
\* no externalURLs yet
AppNoUrl == App("app-pr-1", <<RefAppSet("appset-a")>>, Annotations(Sha1, "1"), StatusNoUrls)
\* externalURLs holds only an empty string
AppEmptyUrl == App("app-pr-1", <<RefAppSet("appset-a")>>, Annotations(Sha1, "1"), Status(<<"">>))
\* externalURLs whose first element is empty and second is not
AppLateUrl == App("app-pr-1", <<RefAppSet("appset-a")>>, Annotations(Sha1, "1"), Status(<<"", Url1>>))

AppObjects ==
    {AppReady1, AppReady2, AppUnownedReady, AppUnownedBare, AppOtherOwned, AppMixedOwned,
     AppNoSha, AppNoAnnotations, AppNoNumber, AppNoUrl, AppEmptyUrl, AppLateUrl}

\* apps['items'] of one listing
AppListings == UNION {[1..n -> AppObjects] : n \in 0..MaxApps}

GenPullRequest(owner, repo) == [pullRequest |-> [github |-> [owner |-> owner, repo |-> repo]]]
GenGitlab == [pullRequest |-> [gitlab |-> [project |-> "acme/widgets"]]]
GenList == [list |-> [elements |-> "static"]]
AppSet(name, gens) == [metadata |-> [name |-> name], spec |-> [generators |-> gens]]

\* apps_sets['items'] of one listing
AppSetListings ==
    {<<AppSet("appset-a", <<GenPullRequest("acme", "widgets")>>),
       AppSet("appset-b", <<GenPullRequest("acme", "gadgets")>>)>>,
     <<>>,
     <<AppSet("appset-a", <<GenList, GenPullRequest("acme", "widgets")>>),
       AppSet("appset-b", <<GenList>>)>>,
     <<AppSet("appset-a", <<GenGitlab>>)>>,
     <<AppSet("appset-a", <<>>)>>}

\* what custom_api.list_cluster_custom_object does for the application sets
AppSetListResults == {[ok |-> TRUE, items |-> l] : l \in AppSetListings} \cup {[ok |-> FALSE]}

(***************************************************************************)
(* Functions of main.py                                                    *)
(***************************************************************************)
\* HasOwnerReferences as it would be if the comprehension tested for the key
\* ('ownerReferences' in metadata) instead of the truth of its value
HasOwnerReferencesKey(app) ==
    "ownerReferences" \in DOMAIN Get(app, "metadata", EmptyDict)

\* the condition of the list comprehension that builds new_apps
HasOwnerReferences(app) ==
    Get(Get(app, "metadata", EmptyDict), "ownerReferences", <<>>) # <<>>

\* new_apps = [app for app in apps['items'] if ...]
RECURSIVE Filter(_)
Filter(items) ==
    IF items = <<>> THEN <<>>
    ELSE IF HasOwnerReferences(Head(items))
         THEN <<Head(items)>> \o Filter(Tail(items))
         ELSE Filter(Tail(items))

\* any(ref['kind'] == 'ApplicationSet' for ref in owner_refs)
AppsetCreated(owner_refs) ==
    \E k \in 1..Len(owner_refs) : owner_refs[k].kind = "ApplicationSet"

\* the name handed to git_provider_info: ownerReferences[0]['name']
AppsetName(owner_refs) == owner_refs[1].name

\* the for loop of git_provider_info over apps_sets['items']
RECURSIVE ScanAppSets(_, _)
ScanAppSets(items, appset_name) ==
    IF items = <<>> THEN PyNone
    ELSE LET app_set == Head(items) IN
         IF app_set.metadata.name = appset_name
         THEN IF app_set.spec.generators = <<>>
              THEN PyRaise("IndexError")
              ELSE IF "pullRequest" \in DOMAIN app_set.spec.generators[1]
                   THEN PyDict(app_set.spec.generators[1].pullRequest)
                   ELSE ScanAppSets(Tail(items), appset_name)
         ELSE ScanAppSets(Tail(items), appset_name)

\* git_provider_info(appset_name), given what the listing of application sets did
git_provider_info(appset_name, listed) ==
    IF ~listed.ok THEN PyRaise("ApiException") ELSE ScanAppSets(listed.items, appset_name)

\* has_external_url
HasExternalUrl(app) ==
    LET urls == Get(Get(Get(app, "status", EmptyDict), "summary", EmptyDict), "externalURLs", <<>>)
    IN  /\ urls # <<>>
        /\ \E k \in 1..Len(urls) : urls[k] # ""

get_grafana_url_prefix(domain) == "https://grafana." \o domain

get_grafana_url_loki(domain, name) ==
    get_grafana_url_prefix(domain) \o "/d/tBmi6B0Vz/loki-logs?orgId=1&var-workload=" \o name
        \o "&from=now-3h&to=now"

get_grafana_url_metrics(domain, ns, name) ==
    get_grafana_url_prefix(domain)
        \o "/d/a164a7f0339f99e89cea5cb47e9be617/kubernetes-compute-resources-workload?var-datasource=Prometheus&var-cluster=&var-namespace="
        \o ns \o "&var-workload=" \o name \o "&var-type=deployment&orgId=1"

get_argocd_application_url(domain, name) ==
    "https://argocd." \o domain \o "/applications/" \o name

\* get_comment: the rows of the rendered table, or the TypeError of ""['head_sha']
get_comment(metadata, name, argocd_url, urls, logs_url, metrics_url) ==
    IF metadata.py # "dict" THEN PyRaise("TypeError")
    ELSE [py |-> "body",
          commit |-> metadata.d.head_sha,
          details |-> argocd_url,
          preview |-> urls.l[1],
          metrics |-> metrics_url,
          logs |-> logs_url,
          qr |-> urls.l[1]]

NoPost == [issued |-> FALSE]

\* update_pr as it would be if it caught the fault of requests.post itself and
\* returned normally
update_pr_swallows_fault(provider, metadata, pr_comment, token, http) ==
    IF provider.py = "None" THEN [ret |-> "raise", exc |-> "TypeError", post |-> NoPost]
    ELSE IF provider.py = "str" \/ "github" \notin DOMAIN provider.d
    THEN [ret |-> "None", exc |-> "", post |-> NoPost]
    ELSE IF metadata.py # "dict"
    THEN [ret |-> "raise", exc |-> "TypeError", post |-> NoPost]
    ELSE IF "pull_request_number" \notin DOMAIN metadata.d
    THEN [ret |-> "raise", exc |-> "KeyError", post |-> NoPost]
    ELSE [ret |-> IF http = "nojson" THEN "response_nojson" ELSE "response",
          exc |-> "",
          post |-> [issued |-> TRUE,
                    owner |-> provider.d.github.owner,
                    repo |-> provider.d.github.repo,
                    number |-> metadata.d.pull_request_number,
                    token |-> token,
                    body |-> pr_comment,
                    returned |-> http # "fault"]]

\* update_pr; http is what requests.post does: "ok", "nojson" (a response whose
\* body is no JSON) or "fault"
update_pr(provider, metadata, pr_comment, token, http) ==
    IF provider.py = "None" THEN [ret |-> "raise", exc |-> "TypeError", post |-> NoPost]
    ELSE IF provider.py = "str" \/ "github" \notin DOMAIN provider.d
    THEN [ret |-> "None", exc |-> "", post |-> NoPost]
    ELSE IF metadata.py # "dict"
    THEN [ret |-> "raise", exc |-> "TypeError", post |-> NoPost]
    ELSE IF "pull_request_number" \notin DOMAIN metadata.d
    THEN [ret |-> "raise", exc |-> "KeyError", post |-> NoPost]
    ELSE LET post == [issued |-> TRUE,
                      owner |-> provider.d.github.owner,
                      repo |-> provider.d.github.repo,
                      number |-> metadata.d.pull_request_number,
                      token |-> token,
                      body |-> pr_comment,
                      returned |-> http # "fault"]
         IN  IF http = "fault" THEN [ret |-> "raise", exc |-> "ConnectionError", post |-> post]
             ELSE [ret |-> IF http = "ok" THEN "response" ELSE "response_nojson",
                   exc |-> "", post |-> post]

(***************************************************************************)
(* State                                                                   *)
(***************************************************************************)
VARIABLES
    pc,                   \* "list": top of the while loop, "loop": in the for loop, "crashed"
    exc,                  \* the exception that left main(), "" while it runs
    cycle,                \* number of listings so far
    CAPTAIN_DOMAIN,       \* module global, Unbound if get_captain_domain raised
    commits_processed,
    apps,                 \* apps['items']
    new_apps,
    i,                    \* position of the for loop in new_apps
    git_provider,
    git_commit_metadata,
    external_urls,
    app_name,
    namespace,
    r,                    \* "unbound", "None", "response", "response_nojson"
    last,                 \* what the last pass of the for loop body did
    posted,               \* the POSTs that returned a response so far
    deferred              \* the SHAs passed over for want of an external URL, each with
                          \* the cycle that first passed it over

vars ==
    <<pc, exc, cycle, CAPTAIN_DOMAIN, commits_processed, apps, new_apps, i, git_provider,
      git_commit_metadata, external_urls, app_name, namespace, r, last, posted,
      deferred>>

(***************************************************************************)
(* The body of the for loop, lines 96-157                                  *)
(***************************************************************************)
NoStep == [kind |-> "none"]
ListFailed == [kind |-> "list_failed"]

\* a pass of the loop body over app that has done nothing yet
Quiet(app) ==
    [kind |-> "app", app |-> app, skipped |-> FALSE, lookup |-> FALSE,
     resolved |-> [py |-> "notcalled"], token |-> FALSE, invoked |-> FALSE,
     post |-> NoPost, appended |-> FALSE, handled |-> ""]

\* an exception that nothing catches leaves main()
Raise(st, e) == [st EXCEPT !.pc = "crashed", !.exc = e]

\* r.json() in the f-strings of lines 149 and 151
RJson(resp) ==
    CASE resp = "unbound" -> "UnboundLocalError"
      [] resp = "None" -> "AttributeError"
      [] resp = "response_nojson" -> "JSONDecodeError"
      [] OTHER -> ""

\* app['metadata']['annotations']['head_sha'] raises KeyError
HeadShaMissing(app) ==
    \/ "annotations" \notin DOMAIN app.metadata
    \/ "head_sha" \notin DOMAIN app.metadata.annotations

\* get_github_api_token as it would be if main() fetched one token on its first
\* delivery and kept it
get_github_api_token_cached(c, k) == [cycle |-> 1, candidate |-> 1]

\* the token a successful call of get_github_api_token returns: every call
\* returns a token of its own, named after the pass (cycle c, candidate k)
\* that made the call
get_github_api_token(c, k) == [cycle |-> c, candidate |-> k]

\* lines 118-151: st holds the locals after line 116
Deliver(app, st, tok, http) ==
    IF CAPTAIN_DOMAIN.py = "unbound" THEN Raise(st, "NameError")
    ELSE
    LET domain == CAPTAIN_DOMAIN.s
        app_logs_url == get_grafana_url_loki(domain, st.app_name)
        app_metrics_url == get_grafana_url_metrics(domain, st.namespace, st.app_name)
        app_argocd_url == get_argocd_application_url(domain, st.app_name)
        pr_comment == get_comment(st.git_commit_metadata, st.app_name, app_argocd_url,
                                  st.external_urls, app_logs_url, app_metrics_url)
    IN
    IF pr_comment.py = "raise" THEN Raise(st, pr_comment.exc)
    ELSE IF tok = "fault" THEN Raise(st, "TokenError")
    ELSE
    LET git_provider_api_token == get_github_api_token(cycle, i)
        up == update_pr(st.git_provider, st.git_commit_metadata, pr_comment,
                        git_provider_api_token, http)
        called == [st EXCEPT !.last.token = TRUE, !.last.invoked = TRUE, !.last.post = up.post]
    IN
    IF up.ret = "raise"
    THEN \* except: of line 150, r as the earlier passes left it
         LET caught == [called EXCEPT !.last.handled = up.exc]
         IN  IF RJson(r) = "" THEN caught ELSE Raise(caught, RJson(r))
    ELSE \* lines 146-149
         LET recorded ==
                 [called EXCEPT !.r = up.ret,
                                !.commits_processed = Append(@, app.metadata.annotations.head_sha),
                                !.last.appended = TRUE]
         IN  IF RJson(up.ret) = "" THEN recorded
             ELSE \* line 149 raises, and so does line 151 in the handler
                  Raise([recorded EXCEPT !.last.handled = RJson(up.ret)], RJson(up.ret))

\* one pass of the for loop body over app; listed, tok and http are what the
\* application-set listing, get_github_api_token and requests.post do if reached
LoopBody(app, listed, tok, http) ==
    LET md == app.metadata
        here == [pc |-> "loop", exc |-> "", commits_processed |-> commits_processed,
                 git_provider |-> git_provider, git_commit_metadata |-> git_commit_metadata,
                 external_urls |-> external_urls, app_name |-> app_name,
                 namespace |-> namespace, r |-> r, last |-> Quiet(app)]
    IN
    IF HeadShaMissing(app) THEN Raise(here, "KeyError")
    ELSE IF InList(md.annotations.head_sha, commits_processed)
    THEN [here EXCEPT !.last.skipped = TRUE]
    ELSE IF "ownerReferences" \notin DOMAIN md THEN Raise(here, "KeyError")
    ELSE
    LET owner_refs == md.ownerReferences
        appset_created == AppsetCreated(owner_refs)
        named == [here EXCEPT !.app_name = md.name,
                              !.namespace = app.spec.destination.namespace]
        resolved == git_provider_info(AppsetName(owner_refs), listed)
        assigned ==
            IF appset_created
            THEN [named EXCEPT !.git_commit_metadata = PyDict(md.annotations),
                               !.git_provider = IF resolved.py = "raise" THEN @ ELSE resolved,
                               !.last.lookup = TRUE,
                               !.last.resolved = resolved]
            ELSE named
        urls == Get(Get(Get(app, "status", EmptyDict), "summary", EmptyDict), "externalURLs", <<>>)
        checked == IF urls # <<>> THEN [assigned EXCEPT !.external_urls = PyList(urls)]
                   ELSE assigned
    IN
    IF appset_created /\ resolved.py = "raise" THEN Raise(assigned, resolved.exc)
    ELSE IF ~HasExternalUrl(app) THEN checked
    ELSE Deliver(app, checked, tok, http)

(***************************************************************************)
(* Actions                                                                 *)
(***************************************************************************)
\* lines 67-73: the module globals and the locals of main() before the loop
Init ==
    /\ pc = "list"
    /\ exc = ""
    /\ cycle = 0
    /\ CAPTAIN_DOMAIN \in {Unbound, PyStr("example.com")}
    /\ commits_processed = <<>>
    /\ apps = <<>>
    /\ new_apps = <<>>
    /\ i = 0
    /\ git_provider = Unbound
    /\ git_commit_metadata = Unbound
    /\ external_urls = Unbound
    /\ app_name = ""
    /\ namespace = ""
    /\ r = "unbound"
    /\ last = NoStep
    /\ posted = {}
    /\ deferred = {}

\* ListApps as it would be if commits_processed = [] stood inside the while loop
ListAppsResetsLedger ==
    /\ pc = "list"
    /\ cycle < MaxCycles
    /\ \E items \in AppListings :
           /\ apps' = items
           /\ new_apps' = Filter(items)
    /\ commits_processed' = <<>>
    /\ git_provider' = PyStr("")
    /\ git_commit_metadata' = PyStr("")
    /\ external_urls' = PyStr("")
    /\ app_name' = ""
    /\ namespace' = ""
    /\ i' = 1
    /\ pc' = "loop"
    /\ cycle' = cycle + 1
    /\ last' = NoStep
    /\ UNCHANGED <<exc, CAPTAIN_DOMAIN, r, posted, deferred>>

\* lines 78-93: the listing succeeds
ListApps ==
    /\ pc = "list"
    /\ cycle < MaxCycles
    /\ \E items \in AppListings :
           /\ apps' = items
           /\ new_apps' = Filter(items)
    /\ git_provider' = PyStr("")
    /\ git_commit_metadata' = PyStr("")
    /\ external_urls' = PyStr("")
    /\ app_name' = ""
    /\ namespace' = ""
    /\ i' = 1
    /\ pc' = "loop"
    /\ cycle' = cycle + 1
    /\ last' = NoStep
    /\ UNCHANGED <<exc, CAPTAIN_DOMAIN, commits_processed, r, posted, deferred>>

\* lines 78-82: list_cluster_custom_object raises
ListAppsFails ==
    /\ pc = "list"
    /\ cycle < MaxCycles
    /\ pc' = "crashed"
    /\ exc' = "ApiException"
    /\ cycle' = cycle + 1
    /\ last' = ListFailed
    /\ UNCHANGED <<CAPTAIN_DOMAIN, commits_processed, apps, new_apps, i, git_provider,
                   git_commit_metadata, external_urls, app_name, namespace, r, posted,
                   deferred>>

\* lines 111-118 of a pass that ended in out: an application created by an
\* ApplicationSet, with both annotations, was left for a later cycle because
\* has_external_url is False
PassedOver(out) ==
    /\ out.pc = "loop"
    /\ ~out.last.skipped
    /\ out.last.lookup
    /\ "pull_request_number" \in DOMAIN out.last.app.metadata.annotations
    /\ ~HasExternalUrl(out.last.app)

\* lines 96-157: one pass of the for loop
ProcessApp ==
    /\ pc = "loop"
    /\ i <= Len(new_apps)
    /\ \E out \in {LoopBody(new_apps[i], listed, tok, http) :
                       listed \in AppSetListResults,
                       tok \in {"ok", "fault"},
                       http \in {"ok", "nojson", "fault"}} :
           /\ pc' = out.pc
           /\ exc' = out.exc
           /\ commits_processed' = out.commits_processed
           /\ git_provider' = out.git_provider
           /\ git_commit_metadata' = out.git_commit_metadata
           /\ external_urls' = out.external_urls
           /\ app_name' = out.app_name
           /\ namespace' = out.namespace
           /\ r' = out.r
           /\ last' = out.last
           /\ posted' = IF out.last.post.issued /\ out.last.post.returned
                        THEN posted \cup {[app_sha |-> new_apps[i].metadata.annotations.head_sha,
                                           body_sha |-> out.last.post.body.commit]}
                        ELSE posted
           /\ deferred' =
                  IF /\ PassedOver(out)
                     /\ \A d \in deferred : d.sha # out.last.app.metadata.annotations.head_sha
                  THEN deferred \cup {[sha |-> out.last.app.metadata.annotations.head_sha,
                                       cycle |-> cycle]}
                  ELSE deferred
    /\ i' = i + 1
    /\ UNCHANGED <<cycle, CAPTAIN_DOMAIN, apps, new_apps>>

\* line 159: the for loop is over and main() sleeps.  Nothing reads the locals of
\* the finished cycle again: lines 78-93 assign every one of them before the next
\* for loop starts, so they are forgotten here (set to what lines 89-93 will assign)
\* to keep states that differ only in a finished cycle's listing from being distinct.
Sleep ==
    /\ pc = "loop"
    /\ i > Len(new_apps)
    /\ pc' = "list"
    /\ last' = NoStep
    /\ apps' = <<>>
    /\ new_apps' = <<>>
    /\ i' = 0
    /\ git_provider' = PyStr("")
    /\ git_commit_metadata' = PyStr("")
    /\ external_urls' = PyStr("")
    /\ app_name' = ""
    /\ namespace' = ""
    /\ UNCHANGED <<exc, cycle, CAPTAIN_DOMAIN, commits_processed, r, posted, deferred>>

Next == ListApps \/ ListAppsFails \/ ProcessApp \/ Sleep

Spec == Init /\ [][Next]_vars

(***************************************************************************)
(* git_provider_info on its own, over every listing of application sets    *)
(* within the bounds                                                       *)
(***************************************************************************)
AppSetNames == {"appset-a", "appset-b"}
Generators == {GenList, GenGitlab, GenPullRequest("acme", "widgets")}
GeneratorLists == UNION {[1..n -> Generators] : n \in 0..MaxGenerators}
AppSetItems ==
    UNION {[1..n -> {AppSet(name, gens) : name \in AppSetNames, gens \in GeneratorLists}] :
               n \in 0..MaxAppSets}

InitResolve ==
    /\ pc = "resolve"
    /\ exc = ""
    /\ cycle = 0
    /\ CAPTAIN_DOMAIN \in {Unbound, PyStr("example.com")}
    /\ commits_processed = <<>>
    /\ apps = <<>>
    /\ new_apps = <<>>
    /\ i = 0
    /\ git_provider = Unbound
    /\ git_commit_metadata = Unbound
    /\ external_urls = Unbound
    /\ app_name = ""
    /\ namespace = ""
    /\ r = "unbound"
    /\ last = NoStep
    /\ posted = {}
    /\ deferred = {}

\* one call of git_provider_info, recorded in last
Resolve ==
    /\ pc = "resolve"
    /\ last = NoStep
    /\ \E appset_name \in AppSetNames,
          listed \in {[ok |-> TRUE, items |-> l] : l \in AppSetItems} \cup {[ok |-> FALSE]} :
           last' = [kind |-> "resolve",
                    appset_name |-> appset_name,
                    listed |-> listed,
                    result |-> git_provider_info(appset_name, listed)]
    /\ UNCHANGED <<pc, exc, cycle, CAPTAIN_DOMAIN, commits_processed, apps, new_apps, i,
                   git_provider, git_commit_metadata, external_urls, app_name, namespace,
                   r, posted, deferred>>

NextResolve == Resolve

SpecResolve == InitResolve /\ [][NextResolve]_vars

(***************************************************************************)
(* Properties                                                              *)
(***************************************************************************)
Shas == {Sha1, Sha2}

\* the annotations lack pull_request_number
NumberMissing(app) ==
    \/ "annotations" \notin DOMAIN app.metadata
    \/ "pull_request_number" \notin DOMAIN app.metadata.annotations

\* ownerReferences is absent or empty
Unowned(app) ==
    \/ "ownerReferences" \notin DOMAIN app.metadata
    \/ app.metadata.ownerReferences = <<>>

\* C1: at-most-once delivery.  Once a POST announcing a commit SHA has returned
\* a response, no pass of the loop body issues another POST announcing that SHA.
C1_AtMostOncePerSha ==
    [][(last'.kind = "app" /\ last'.post.issued)
           => last'.post.body.commit \notin {p.body_sha : p \in posted}]_vars

\* C2: retry on failure.  After a pass whose POST raised a transport fault,
\* main() is still running and the candidate's SHA is not in commits_processed,
\* so that the next cycle observing it attempts delivery again.
C2_RetryOnFailure ==
    (last.kind = "app" /\ last.post.issued /\ ~last.post.returned)
        => /\ pc # "crashed"
           /\ ~InList(last.app.metadata.annotations.head_sha, commits_processed)

\* C3: ledger invariant.  A SHA is in commits_processed if and only if a POST
\* for a candidate with that SHA was issued and returned a response.
C3_LedgerIffDelivered ==
    \A sha \in Shas :
        InList(sha, commits_processed) <=> \E p \in posted : p.app_sha = sha

\* C4: per-candidate fault isolation.  main() never terminates because of a
\* fault raised while a candidate is processed.
C4_FaultIsolation ==
    pc = "crashed" => last.kind # "app"

\* C5: readiness gating.  A candidate that lacks head_sha, or lacks
\* pull_request_number, or has no non-empty external URL, never reaches
\* update_pr and no POST is issued for it.
C5_ReadinessGating ==
    (/\ last.kind = "app"
     /\ \/ HeadShaMissing(last.app)
        \/ NumberMissing(last.app)
        \/ ~HasExternalUrl(last.app))
        => (~last.invoked /\ ~last.post.issued)

\* C6: an owned application without head_sha (or without annotations) is
\* skipped silently: no error is raised, no state changes, the loop goes on.
C6_MissingShaSkipped ==
    (last.kind = "app" /\ HeadShaMissing(last.app))
        => (pc = "loop" /\ exc = "")

\* C7: generator-kind gating.  While a candidate whose owner references hold no
\* ApplicationSet is processed, no POST is issued and its SHA is not added to
\* commits_processed, whatever candidates precede it.
C7_GeneratorKindGating ==
    (/\ last.kind = "app"
     /\ ~Unowned(last.app)
     /\ ~AppsetCreated(last.app.metadata.ownerReferences))
        => (~last.post.issued /\ ~last.appended)

\* C8: a failed listing of the applications aborts the cycle only: main() goes
\* on to the next cycle.
C8_SourceUnavailableNotFatal ==
    last.kind = "list_failed" => pc = "list"

\* C9: resolution miss.  When git_provider_info returns nothing for a candidate
\* (the base domain being resolved and the token fetch not failing), the
\* candidate is skipped without a crash: no POST, no ledger entry, and main()
\* goes on, so that a later cycle can deliver it.
C9_ResolutionMissSkipped ==
    (/\ last.kind = "app"
     /\ last.lookup
     /\ last.resolved.py = "None"
     /\ CAPTAIN_DOMAIN.py = "str"
     /\ exc # "TokenError")
        => (pc # "crashed" /\ ~last.post.issued /\ ~last.appended)

\* C10: ownership gating.  new_apps holds exactly the applications of the
\* listing whose ownerReferences is present and non-empty, in the order of the
\* listing, and every pass of the loop body (with its provider lookup, token
\* fetch, POST and ledger change) is over such an application.
C10_OwnershipGating ==
    /\ \A k \in 1..Len(new_apps) : ~Unowned(new_apps[k])
    /\ Len(new_apps) = Cardinality({j \in 1..Len(apps) : ~Unowned(apps[j])})
    /\ \E f \in [1..Len(new_apps) -> 1..Len(apps)] :
           /\ \A k \in 1..Len(new_apps) : new_apps[k] = apps[f[k]]
           /\ \A k \in 1..Len(new_apps) : \A l \in 1..Len(new_apps) : k < l => f[k] < f[l]
    /\ last.kind = "app" => ~Unowned(last.app)

\* C10 witness: a listing with a hand-created application that has every other
\* field, followed by an owned one; only the owned one was processed and posted.
C10_Witness ==
    /\ apps = <<AppUnownedReady, AppReady1>>
    /\ new_apps = <<AppReady1>>
    /\ pc = "loop"
    /\ i = 2
    /\ last.post.issued
    /\ commits_processed = <<Sha1>>

\* C11: correct addressing.  Every POST issued while a candidate is processed
\* goes to the owner/repo that git_provider_info resolved in that same pass for
\* that candidate, which an ApplicationSet owns, and to the pull request
\* numbered in that candidate's own annotations.
C11_CorrectAddressing ==
    (last.kind = "app" /\ last.post.issued)
        => /\ AppsetCreated(last.app.metadata.ownerReferences)
           /\ last.lookup
           /\ last.resolved.py = "dict"
           /\ "github" \in DOMAIN last.resolved.d
           /\ last.post.owner = last.resolved.d.github.owner
           /\ last.post.repo = last.resolved.d.github.repo
           /\ ~NumberMissing(last.app)
           /\ last.post.number = last.app.metadata.annotations.pull_request_number

\* C12: when the POST for a candidate raises a transport fault, that pass
\* leaves commits_processed as it was.
C12_FaultLeavesLedger ==
    [][(last'.kind = "app" /\ last'.post.issued /\ ~last'.post.returned)
           => commits_processed' = commits_processed]_vars

\* C12 witness: after an earlier delivery, the POST for app-pr-1 faulted; the
\* fault was logged, the loop goes on and abc123 is not recorded.
C12_Witness ==
    /\ last.kind = "app"
    /\ last.app = AppReady1
    /\ last.post.issued
    /\ ~last.post.returned
    /\ last.handled = "ConnectionError"
    /\ pc = "loop"
    /\ commits_processed = <<Sha2>>

\* an application created by an ApplicationSet that carries both annotations
Announceable(app) ==
    /\ ~HeadShaMissing(app)
    /\ ~NumberMissing(app)
    /\ ~Unowned(app)
    /\ AppsetCreated(app.metadata.ownerReferences)

\* C13: deferral of not-ready candidates.  A pass over an ApplicationSet-owned
\* candidate with both annotations and no non-empty external URL issues no POST
\* and records nothing; and the pass of a later cycle that finds it with a
\* non-empty external URL, its SHA undelivered, its provider resolved and the
\* token fetched and the POST not faulting, delivers the comment and records its
\* SHA.
C13_DeferredThenDelivered ==
    /\ (last.kind = "app" /\ Announceable(last.app) /\ ~HasExternalUrl(last.app))
           => (~last.post.issued /\ ~last.appended)
    /\ (/\ last.kind = "app"
        /\ Announceable(last.app)
        /\ HasExternalUrl(last.app)
        /\ \E d \in deferred :
               d.sha = last.app.metadata.annotations.head_sha /\ d.cycle < cycle
        /\ exc # "TokenError"
        /\ ~last.skipped
        /\ last.lookup
        /\ last.resolved.py = "dict"
        /\ "github" \in DOMAIN last.resolved.d
        /\ ~(last.post.issued /\ ~last.post.returned))
           => (last.post.issued /\ last.post.returned /\ last.appended)

\* the smallest element of a non-empty set of numbers
Least(S) == CHOOSE k \in S : \A j \in S : k <= j

\* what C14 says git_provider_info returns
FirstPullRequest(items, appset_name) ==
    LET named == {k \in 1..Len(items) : items[k].metadata.name = appset_name}
    IN  IF named = {} THEN PyNone
        ELSE LET gens == items[Least(named)].spec.generators
                 with == {j \in 1..Len(gens) : "pullRequest" \in DOMAIN gens[j]}
             IN  IF with = {} THEN PyNone ELSE PyDict(gens[Least(with)].pullRequest)

\* C14: provider resolution result.  For every listing (application-set names
\* unique, the call not raising) and every name, git_provider_info returns the
\* pullRequest section of the first generator entry of the named application
\* set that has one, at whatever index, and nothing only if the application set
\* is not found or none of its entries has one.
C14_FirstPullRequestEntry ==
    (/\ last.kind = "resolve"
     /\ last.listed.ok
     /\ \A k \in 1..Len(last.listed.items) : \A j \in 1..Len(last.listed.items) :
            last.listed.items[k].metadata.name = last.listed.items[j].metadata.name => k = j
     /\ last.result.py # "raise")
        => last.result = FirstPullRequest(last.listed.items, last.appset_name)

\* C15: the ledger is an append-only set.  No step removes or moves an entry of
\* commits_processed, and no SHA appears in it twice.
C15_LedgerAppendOnly ==
    [][/\ Len(commits_processed') >= Len(commits_processed)
       /\ \A k \in 1..Len(commits_processed) : commits_processed'[k] = commits_processed[k]
       /\ \A k \in 1..Len(commits_processed') : \A j \in 1..Len(commits_processed') :
              commits_processed'[k] = commits_processed'[j] => k = j]_vars

\* C15 witness: in a later cycle, with both SHAs recorded in earlier cycles, a
\* candidate is found already processed and skipped.
C15_Witness ==
    /\ cycle = 3
    /\ commits_processed = <<Sha1, Sha2>>
    /\ last.kind = "app"
    /\ last.skipped
    /\ last.app = AppReady1

\* C16: fresh token per delivery.  Every POST carries the token that
\* get_github_api_token returned in the same pass of the same cycle, a pass
\* that reaches update_pr has fetched its token, and so no token serves two
\* candidates.
C16_FreshTokenPerDelivery ==
    last.kind = "app"
        => /\ last.invoked => last.token
           /\ last.post.issued => last.post.token = [cycle |-> cycle, candidate |-> i - 1]

\* C16 witness: the second candidate of a cycle is delivered after the first.
C16_Witness ==
    /\ cycle = 1
    /\ i = 3
    /\ last.kind = "app"
    /\ last.app = AppReady2
    /\ last.post.issued
    /\ last.post.returned
    /\ commits_processed = <<Sha1, Sha2>>

\* C17: unresolved base domain.  When get_captain_domain failed at startup,
\* building the links of a ready candidate does not terminate main().
C17_UnresolvedDomainGraceful ==
    (CAPTAIN_DOMAIN.py = "unbound" /\ last.kind = "app" /\ HasExternalUrl(last.app))
        => exc # "NameError"

\* C18: whenever a pass posts a comment and records a SHA, the recorded SHA is
\* the commit SHA rendered in the body of that comment.
C18_RecordedShaIsAnnounced ==
    (last.kind = "app" /\ last.post.issued /\ last.appended)
        => last.post.body.commit = last.app.metadata.annotations.head_sha

\* C19: whenever a comment is posted, the URL of its preview link and of its
\* QR-code image is non-empty.
C19_PreviewUrlNonEmpty ==
    (last.kind = "app" /\ last.post.issued)
        => (last.post.body.preview # "" /\ last.post.body.qr # "")

====
